---- MODULE Spec2Model ----
(***************************************************************************)
(* Model of the Wildberries order ingestion and ABC analysis backend:      *)
(*   - APIClient (wb/clients/core.py): the semaphore-gated fetch,          *)
(*   - OrdersApi.get_orders (wb/clients/orders/api.py): request + decode,  *)
(*   - get_orders (wb/routers/orders.py): the report handler,              *)
(*   - calculate_abc_analysis (wb/services/abc_analytics.py).              *)
(*                                                                         *)
(* Numbers.  Money (price_with_disc, revenue) is an integer amount.        *)
(* Percentages that the code keeps as floats are kept exactly, as          *)
(* fractions over total_revenue; a percentage that the code rounds to two  *)
(* decimals, and a threshold, is an integer number of hundredths of a      *)
(* percent (80.0 is 8000).  Binary floating point error of the             *)
(* accumulation (about 1e-14) is not modelled.                             *)
(*                                                                         *)
(* Time.  A datetime is a record [day, sec, us]: the ordinal of the        *)
(* calendar day, the second within the day and the microsecond within the  *)
(* second, as Python's datetime resolves them.  A calendar date is the     *)
(* ordinal of its day.                                                     *)
(***************************************************************************)
EXTENDS Integers, Sequences, FiniteSets, TLC

(***************************************************************************)
(* Bounds of the model.                                                    *)
(***************************************************************************)
\* longest order list: an upstream response body, an argument of the aggregator
MaxOrders == 2

\* tasks that call fetch on one shared client
NumTasks == 3

\* queries the application serves at the same time
NumQueries == 11

\* largest max_concurrent_requests a shared client is constructed with
MaxCapacity == 2

(***************************************************************************)
(* Program constants.                                                      *)
(***************************************************************************)
\* APIClient.__init__: max_concurrent_requests = 10
DefaultMaxConcurrentRequests == 10

\* OrdersApi.get_orders: flag = 1
DefaultFlag == 1

\* get_orders: the flag passed when date_to is given
SinceFlag == 0

\* get_orders: if days_diff > 90
MaxDaysBack == 90

\* timedelta(days=1, seconds=-1) is normalised over days of 86400 seconds
SecondsPerDay == 86400

\* calculate_abc_analysis: threshold_a = 80.0, threshold_b = 95.0, in hundredths
DefaultThresholdA == 8000

DefaultThresholdB == 9500

(***************************************************************************)
(* Input domains.                                                          *)
(***************************************************************************)
NmIds == {1, 2}

Prices == {0, 200, 800, 3201}

\* descriptive fields of a record: supplier_article, barcode, subject, brand
Descrs ==
    { [supplier_article |-> "",     barcode |-> "bc1", subject |-> "s1", brand |-> "br1"],
      [supplier_article |-> "skuA", barcode |-> "bc1", subject |-> "s1", brand |-> "br1"],
      [supplier_article |-> "skuB", barcode |-> "bc2", subject |-> "s2", brand |-> "br2"] }

\* threshold_a, threshold_b in hundredths of a percent; the first pair is the default
Thresholds == { <<DefaultThresholdA, DefaultThresholdB>>, <<10000, 10000>> }

\* where every modelled order was shipped from and to
Place ==
    [ warehouse_name |-> "wh1", country_name |-> "c1",
      oblast_okrug_name |-> "o1", region_name |-> "r1" ]

\* schemas.OrderItem, restricted to the fields the modelled code reads
OrderItem(lcd, nm, d, price, cancel) ==
    [ last_change_date |-> lcd,
      nm_id            |-> nm,
      supplier_article |-> d.supplier_article,
      barcode          |-> d.barcode,
      subject          |-> d.subject,
      brand            |-> d.brand,
      price_with_disc  |-> price,
      is_cancel        |-> cancel,
      warehouse_name    |-> Place.warehouse_name,
      country_name      |-> Place.country_name,
      oblast_okrug_name |-> Place.oblast_okrug_name,
      region_name       |-> Place.region_name ]

DateTime(day, sec, us) == [day |-> day, sec |-> sec, us |-> us]

\* the records the aggregator is exercised on (their timestamps play no part):
\* every live record, and one cancelled record per product
ClassifyItems ==
    { OrderItem(DateTime(0, 0, 0), nm, d, p, FALSE) :
        nm \in NmIds, d \in Descrs, p \in Prices }
    \cup
    { OrderItem(DateTime(0, 0, 0), nm,
                [supplier_article |-> "skuB", barcode |-> "bc2",
                 subject |-> "s2", brand |-> "br2"], 800, TRUE) : nm \in NmIds }

SeqsUpTo(S, n) == UNION { [1..k -> S] : k \in 0..n }

(***************************************************************************)
(* calculate_abc_analysis                                                  *)
(***************************************************************************)
RECURSIVE filtered_orders_always(_, _)
\* a variant that drops cancelled records whatever exclude_cancelled says
filtered_orders_always(orders, exclude_cancelled) ==
    IF orders = <<>> THEN <<>>
    ELSE IF ~Head(orders).is_cancel
         THEN <<Head(orders)>> \o filtered_orders_always(Tail(orders), exclude_cancelled)
         ELSE filtered_orders_always(Tail(orders), exclude_cancelled)

RECURSIVE filtered_orders(_, _)
\* the list comprehension: the kept records, in input order
filtered_orders(orders, exclude_cancelled) ==
    IF orders = <<>> THEN <<>>
    ELSE IF ~(exclude_cancelled /\ Head(orders).is_cancel)
         THEN <<Head(orders)>> \o filtered_orders(Tail(orders), exclude_cancelled)
         ELSE filtered_orders(Tail(orders), exclude_cancelled)

\* the defaultdict factory: the accumulator of a product seen for the first time
default_item(nm) ==
    [ nm_id |-> nm, supplier_article |-> "", barcode |-> "", subject |-> "",
      brand |-> "", orders_count |-> 0, revenue |-> 0 ]

\* the descriptive fields are taken while supplier_article is still empty
fill_descriptive(item, order) ==
    IF item.supplier_article = ""
    THEN [item EXCEPT !.supplier_article = order.supplier_article,
                      !.barcode = order.barcode,
                      !.subject = order.subject,
                      !.brand = order.brand]
    ELSE item

\* one turn of the aggregation loop
accumulate(item, order) ==
    LET d == fill_descriptive(item, order)
    IN  [d EXCEPT !.orders_count = @ + 1,
                  !.revenue = @ + order.price_with_disc]

\* a variant that starts a new accumulator for every record
add_order_apart(agg, order) ==
    Append(agg, accumulate(default_item(order.nm_id), order))

\* aggregated[order.nm_id], the dict being a sequence in insertion order
add_order(agg, order) ==
    IF \E i \in 1..Len(agg) : agg[i].nm_id = order.nm_id
    THEN [i \in 1..Len(agg) |->
            IF agg[i].nm_id = order.nm_id THEN accumulate(agg[i], order) ELSE agg[i]]
    ELSE Append(agg, accumulate(default_item(order.nm_id), order))

RECURSIVE aggregate(_, _)
aggregate(agg, orders) ==
    IF orders = <<>> THEN agg
    ELSE aggregate(add_order(agg, Head(orders)), Tail(orders))

RECURSIVE SumRevenue(_)
SumRevenue(items) ==
    IF items = <<>> THEN 0 ELSE Head(items).revenue + SumRevenue(Tail(items))

\* a variant that sorts by revenue ascending (reverse=True forgotten)
insert_asc(sorted, x) ==
    LET k == Cardinality({i \in 1..Len(sorted) : sorted[i].revenue <= x.revenue})
    IN  SubSeq(sorted, 1, k) \o <<x>> \o SubSeq(sorted, k + 1, Len(sorted))

\* sorted(..., reverse=True) is stable: an item goes after its equals
insert_desc(sorted, x) ==
    LET k == Cardinality({i \in 1..Len(sorted) : sorted[i].revenue >= x.revenue})
    IN  SubSeq(sorted, 1, k) \o <<x>> \o SubSeq(sorted, k + 1, Len(sorted))

RECURSIVE sorted_items(_)
sorted_items(items) ==
    IF items = <<>> THEN <<>>
    ELSE insert_desc(sorted_items(SubSeq(items, 1, Len(items) - 1)), items[Len(items)])

\* round(x, 2) of the percentage 100 * num / den, in hundredths, ties to even
round2(num, den) ==
    LET n == 10000 * num
        q == n \div den
        r == n % den
    IN  IF 2 * r < den THEN q
        ELSE IF 2 * r > den THEN q + 1
        ELSE IF q % 2 = 0 THEN q ELSE q + 1

\* cumulative_share <= threshold, cumulative_share being 100 * cum / total
share_le(cum, total, threshold) == 10000 * cum <= threshold * total

\* a variant that compares the share after rounding it to two decimals
category_of_rounded(cum, total, threshold_a, threshold_b) ==
    IF round2(cum, total) <= threshold_a THEN "A"
    ELSE IF round2(cum, total) <= threshold_b THEN "B"
    ELSE "C"

category(cum, total, threshold_a, threshold_b) ==
    IF share_le(cum, total, threshold_a) THEN "A"
    ELSE IF share_le(cum, total, threshold_b) THEN "B"
    ELSE "C"

\* a variant that emits the item's own share as its cumulative share
abc_item_own_share(data, cum, total, threshold_a, threshold_b) ==
    [ supplier_article |-> data.supplier_article,
      nm_id            |-> data.nm_id,
      barcode          |-> data.barcode,
      subject          |-> data.subject,
      brand            |-> data.brand,
      category         |-> category(cum, total, threshold_a, threshold_b),
      orders_count     |-> data.orders_count,
      revenue          |-> data.revenue,
      revenue_share    |-> round2(data.revenue, total),
      cumulative_share |-> round2(data.revenue, total) ]

\* schemas.ABCItem built by one turn of the classification loop; cum is the
\* revenue accumulated up to and including this item
abc_item(data, cum, total, threshold_a, threshold_b) ==
    [ supplier_article |-> data.supplier_article,
      nm_id            |-> data.nm_id,
      barcode          |-> data.barcode,
      subject          |-> data.subject,
      brand            |-> data.brand,
      category         |-> category(cum, total, threshold_a, threshold_b),
      orders_count     |-> data.orders_count,
      revenue          |-> data.revenue,
      revenue_share    |-> round2(data.revenue, total),
      cumulative_share |-> round2(cum, total) ]

RECURSIVE classify_loop(_, _, _, _, _)
classify_loop(items, cum, total, threshold_a, threshold_b) ==
    IF items = <<>> THEN <<>>
    ELSE LET c == cum + Head(items).revenue
         IN  <<abc_item(Head(items), c, total, threshold_a, threshold_b)>>
             \o classify_loop(Tail(items), c, total, threshold_a, threshold_b)

calculate_abc_analysis(orders, threshold_a, threshold_b, exclude_cancelled) ==
    LET filtered == filtered_orders(orders, exclude_cancelled)
        aggregated == aggregate(<<>>, filtered)
        total_revenue == SumRevenue(aggregated)
    IN  IF filtered = <<>> THEN <<>>
        ELSE IF total_revenue = 0 THEN <<>>
        ELSE classify_loop(sorted_items(aggregated), 0, total_revenue,
                           threshold_a, threshold_b)

(***************************************************************************)
(* Dates, the wire format and its decoding.                                *)
(***************************************************************************)
\* datetime.now().date(), as the ordinal of the day
Today == 1000

\* an optional value: <<>> is None, <<v>> is v
None == <<>>

Some(v) == <<v>>

\* datetime.strptime(date, "%Y-%m-%d"): midnight of the calendar day
strptime(day) == DateTime(day, 0, 0)

\* datetime + timedelta(days, seconds), normalised
plus_timedelta(dt, days, seconds) ==
    LET s == dt.sec + seconds
    IN  [day |-> dt.day + days + (s \div SecondsPerDay),
         sec |-> s % SecondsPerDay,
         us  |-> dt.us]

\* datetime <= datetime
dt_le(x, y) ==
    \/ x.day < y.day
    \/ x.day = y.day /\ x.sec < y.sec
    \/ x.day = y.day /\ x.sec = y.sec /\ x.us <= y.us

\* one element of the upstream JSON array, keys in camelCase; wellformed says
\* that every required key is present with a value of its type
WireItem(ok, lcd, nm, d, price, cancel) ==
    [ wellformed      |-> ok,
      lastChangeDate  |-> lcd,
      nmId            |-> nm,
      supplierArticle |-> d.supplier_article,
      barcode         |-> d.barcode,
      subject         |-> d.subject,
      brand           |-> d.brand,
      priceWithDisc   |-> price,
      isCancel        |-> cancel,
      warehouseName   |-> Place.warehouse_name,
      countryName     |-> Place.country_name,
      oblastOkrugName |-> Place.oblast_okrug_name,
      regionName      |-> Place.region_name ]

\* OrderItem.model_validate of one element (alias_generator=to_camel)
decode_item(w) ==
    [ last_change_date |-> w.lastChangeDate,
      nm_id            |-> w.nmId,
      supplier_article |-> w.supplierArticle,
      barcode          |-> w.barcode,
      subject          |-> w.subject,
      brand            |-> w.brand,
      price_with_disc  |-> w.priceWithDisc,
      is_cancel        |-> w.isCancel,
      warehouse_name    |-> w.warehouseName,
      country_name      |-> w.countryName,
      oblast_okrug_name |-> w.oblastOkrugName,
      region_name       |-> w.regionName ]

\* OrdersResponse.model_validate succeeds: every element has the order shape
validates(response) == \A i \in 1..Len(response) : response[i].wellformed

\* OrdersResponse.model_validate(response).root
model_validate(response) == [i \in 1..Len(response) |-> decode_item(response[i])]

\* strptime(date_to) + timedelta(days=1, seconds=-1)
date_to_end(date_to) == plus_timedelta(strptime(date_to), 1, -1)

RECURSIVE orders_until(_, _)
\* [order for order in orders_response if order.last_change_date <= date_to_end]
orders_until(orders_response, limit) ==
    IF orders_response = <<>> THEN <<>>
    ELSE IF dt_le(Head(orders_response).last_change_date, limit)
         THEN <<Head(orders_response)>> \o orders_until(Tail(orders_response), limit)
         ELSE orders_until(Tail(orders_response), limit)

(***************************************************************************)
(* Exceptions and results.                                                 *)
(***************************************************************************)
NoMsg == [form |-> "", url |-> "", params |-> <<>>, body |-> "", status |-> 0, response |-> ""]

Exception(type, status_code, detail, msg) ==
    [type |-> type, status_code |-> status_code, detail |-> detail, msg |-> msg]

NoException == Exception("none", 0, "", NoMsg)

\* raise RuntimeError("Client is not initialized. Use 'async with'.")
NotInitializedError == Exception("RuntimeError", 0, "Client is not initialized", NoMsg)

\* httpx refuses to send on a client that has been closed
ClientClosedError == Exception("RuntimeError", 0, "client has been closed", NoMsg)

\* a variant that reports a non-2xx answer without its status and body
GenericFetchError(args, status, text) ==
    Exception("FetchError", 0, "",
              [form |-> "Request failed", url |-> args.url, params |-> args.params,
               body |-> args.body, status |-> 0, response |-> ""])

\* FetchError of an HTTPStatusError
RequestFailedError(args, status, text) ==
    Exception("FetchError", 0, "",
              [form |-> "Request failed", url |-> args.url, params |-> args.params,
               body |-> args.body, status |-> status, response |-> text])

\* FetchError of a RequestError
TransportFailedError(args) ==
    Exception("FetchError", 0, "",
              [form |-> "HTTP client error", url |-> args.url, params |-> <<>>,
               body |-> "", status |-> 0, response |-> ""])

\* resp.json() on a body that is not JSON
JsonError == Exception("ValueError", 0, "", NoMsg)

CancelledError == Exception("CancelledError", 0, "", NoMsg)

\* pydantic's error of OrdersResponse.model_validate
ValidationError == Exception("ValidationError", 0, "", NoMsg)

\* HTTPException(400, "Нельзя выгрузить отчет старше чем за 90 дней")
RangeTooOldError == Exception("HTTPException", 400, "older than 90 days", NoMsg)

\* a variant that reports the empty result with the detail of the 90-day check
EmptyResultAsTooOld == Exception("HTTPException", 400, "older than 90 days", NoMsg)

\* HTTPException(400, "List of orders is empty.")
EmptyResultError == Exception("HTTPException", 400, "List of orders is empty.", NoMsg)

NoResult == [kind |-> "none", value |-> <<>>, exc |-> NoException]

Returned(value) == [kind |-> "ok", value |-> value, exc |-> NoException]

Raised(exc) == [kind |-> "raised", value |-> <<>>, exc |-> exc]

\* the upstream's answer to a request: its status line and body, or the
\* transport's failure to get one
NoResponse == [kind |-> "none", status |-> 0, text |-> "", json |-> <<>>]

Response2xx(payload) == [kind |-> "2xx", status |-> 200, text |-> "", json |-> payload]

ResponseStatus(status, text) ==
    [kind |-> "status", status |-> status, text |-> text, json |-> <<>>]

ResponseNotJson == [kind |-> "not json", status |-> 200, text |-> "", json |-> <<>>]

NoConnection == [kind |-> "transport", status |-> 0, text |-> "", json |-> <<>>]

\* the arguments of a fetch call; OrdersApi.get_orders passes no body
NoArgs == [url |-> "", params |-> <<>>, body |-> "None"]

\* ExternalApiUrls.SUPPLIER_ORDERS with params {"dateFrom": ..., "flag": ...}
orders_request(date_from, flag) ==
    [url |-> "v1/supplier/orders",
     params |-> << <<"dateFrom", date_from>>, <<"flag", flag>> >>,
     body |-> "None"]

(***************************************************************************)
(* State.                                                                  *)
(***************************************************************************)
Tasks == 1..NumTasks

\* client 0 is shared by the tasks; client t is the one get_client makes for query t
ClientIds == 0..NumTasks

SharedClient == 0

VARIABLES
    http,           \* per client: _client is "None", "open" or "closed"
    capacity,       \* per client: max_concurrent_requests it was constructed with
    sem_value,      \* per client: free slots of _semaphore
    sem_waiters,    \* per client: tasks suspended in _semaphore.acquire, in order
    fpc,            \* per task: position of its fetch call
    fargs,          \* per task: arguments of its fetch call
    fres,           \* per task: what its fetch call returned or raised
    sent,           \* per task: network requests its fetch call has sent
    resp,           \* per task: what the upstream answered to its request
    rq,             \* the report query being served
    hf,             \* the background task save_orders_to_db of the query
    store,          \* the committed rows of the database, per table
    qs,             \* per concurrent query: its position and the gate of its client
    cls             \* one call of calculate_abc_analysis: arguments, position, result

client_vars == <<http, capacity, sem_value, sem_waiters>>

fetch_vars == <<fpc, fargs, fres, sent, resp>>

db_vars == <<hf, store>>

vars == <<http, capacity, sem_value, sem_waiters, fpc, fargs, fres, sent, resp, rq,
          hf, store, cls, qs>>

(***************************************************************************)
(* APIClient                                                               *)
(***************************************************************************)
\* __init__: the semaphore starts with max_concurrent_requests free slots
ClientsInit(shared_capacity) ==
    /\ http = [c \in ClientIds |-> "None"]
    /\ capacity = [c \in ClientIds |->
                     IF c = SharedClient THEN shared_capacity
                     ELSE DefaultMaxConcurrentRequests]
    /\ sem_value = capacity
    /\ sem_waiters = [c \in ClientIds |-> <<>>]

FetchInit ==
    /\ fpc = [t \in Tasks |-> "idle"]
    /\ fargs = [t \in Tasks |-> NoArgs]
    /\ fres = [t \in Tasks |-> NoResult]
    /\ sent = [t \in Tasks |-> 0]
    /\ resp = [t \in Tasks |-> NoResponse]

\* __aenter__
Enter(c) ==
    /\ http[c] # "open"
    /\ http' = [http EXCEPT ![c] = "open"]
    /\ UNCHANGED <<capacity, sem_value, sem_waiters, fetch_vars, rq, cls, db_vars, qs>>

\* __aexit__: if self._client: await self._client.aclose()
Exit(c) ==
    /\ http[c] = "open"
    /\ http' = [http EXCEPT ![c] = "closed"]
    /\ UNCHANGED <<capacity, sem_value, sem_waiters, fetch_vars, rq, cls, db_vars, qs>>

\* a variant without the gate: the request is sent without waiting for a slot
gate_ignored(c) == TRUE

\* async with self._semaphore: a slot is taken at once when one is free and
\* nobody is queued for it
gate_free(c) == sem_value[c] > 0 /\ sem_waiters[c] = <<>>

\* a variant that gives no slot back
slot_kept(c) == sem_value

\* leaving the async with block gives the slot back
slot_released(c) == [sem_value EXCEPT ![c] = @ + 1]

\* with a slot: self._client.request(...) is sent, unless the client is closed
send_request(t, c) ==
    IF http[c] = "open"
    THEN /\ sem_value' = [sem_value EXCEPT ![c] = @ - 1]
         /\ fpc' = [fpc EXCEPT ![t] = "inflight"]
         /\ sent' = [sent EXCEPT ![t] = @ + 1]
         /\ fres' = fres
    ELSE /\ sem_value' = sem_value
         /\ fpc' = [fpc EXCEPT ![t] = "returned"]
         /\ sent' = sent
         /\ fres' = [fres EXCEPT ![t] = Raised(ClientClosedError)]

\* fetch, up to its first suspension
fetch_enter(t, c, args) ==
    /\ fargs' = [fargs EXCEPT ![t] = args]
    /\ IF http[c] = "None"
       THEN /\ fpc' = [fpc EXCEPT ![t] = "returned"]
            /\ fres' = [fres EXCEPT ![t] = Raised(NotInitializedError)]
            /\ UNCHANGED <<sent, sem_value, sem_waiters>>
       ELSE IF gate_free(c)
       THEN /\ send_request(t, c)
            /\ UNCHANGED sem_waiters
       ELSE /\ sem_waiters' = [sem_waiters EXCEPT ![c] = Append(@, t)]
            /\ fpc' = [fpc EXCEPT ![t] = "waiting"]
            /\ UNCHANGED <<sent, sem_value, fres>>

\* a task calls fetch on the shared client
Fetch(t, c, args) ==
    /\ fpc[t] = "idle"
    /\ fetch_enter(t, c, args)
    /\ UNCHANGED <<http, capacity, resp, rq, cls, db_vars, qs>>

\* the first suspended call is given the slot that was freed
Admit(t, c) ==
    /\ fpc[t] = "waiting"
    /\ sem_waiters[c] # <<>>
    /\ Head(sem_waiters[c]) = t
    /\ sem_value[c] > 0
    /\ sem_waiters' = [sem_waiters EXCEPT ![c] = Tail(@)]
    /\ send_request(t, c)
    /\ UNCHANGED <<http, capacity, fargs, resp, rq, cls, db_vars, qs>>

\* the call leaves the async with block with result r
fetch_leave(t, c, r) ==
    /\ fpc' = [fpc EXCEPT ![t] = "returned"]
    /\ fres' = [fres EXCEPT ![t] = r]
    /\ sem_value' = slot_released(c)
    /\ UNCHANGED <<http, capacity, sem_waiters, fargs, sent, rq, cls, db_vars, qs>>

\* 2xx with a JSON body: return resp.json()
RespondOk(t, c, payload) ==
    /\ fpc[t] = "inflight"
    /\ resp' = [resp EXCEPT ![t] = Response2xx(payload)]
    /\ fetch_leave(t, c, Returned(payload))

\* a variant that sends the request again after a non-2xx answer
RespondStatusRetry(t, c, status, text) ==
    /\ fpc[t] = "inflight"
    /\ sent[t] < 3
    /\ sent' = [sent EXCEPT ![t] = @ + 1]
    /\ UNCHANGED <<client_vars, fpc, fargs, fres, resp, rq, cls, db_vars, qs>>

\* non-2xx: raise_for_status raises HTTPStatusError, rethrown as FetchError
RespondStatus(t, c, status, text) ==
    /\ fpc[t] = "inflight"
    /\ resp' = [resp EXCEPT ![t] = ResponseStatus(status, text)]
    /\ fetch_leave(t, c, Raised(RequestFailedError(fargs[t], status, text)))

\* httpx.RequestError (connect, timeout, DNS, TLS), rethrown as FetchError
TransportError(t, c) ==
    /\ fpc[t] = "inflight"
    /\ resp' = [resp EXCEPT ![t] = NoConnection]
    /\ fetch_leave(t, c, Raised(TransportFailedError(fargs[t])))

\* 2xx with a body that is not JSON: resp.json() raises, nothing catches it
BodyNotJson(t, c) ==
    /\ fpc[t] = "inflight"
    /\ resp' = [resp EXCEPT ![t] = ResponseNotJson]
    /\ fetch_leave(t, c, Raised(JsonError))

\* the calling task is cancelled while it awaits the response
CancelInFlight(t, c) ==
    /\ fpc[t] = "inflight"
    /\ resp' = resp
    /\ fetch_leave(t, c, Raised(CancelledError))

\* the calling task is cancelled while it is suspended at the gate
CancelWaiting(t, c) ==
    /\ fpc[t] = "waiting"
    /\ fpc' = [fpc EXCEPT ![t] = "returned"]
    /\ fres' = [fres EXCEPT ![t] = Raised(CancelledError)]
    /\ sem_waiters' = [sem_waiters EXCEPT ![c] =
                          SelectSeq(@, LAMBDA u : u # t)]
    /\ UNCHANGED <<http, capacity, sem_value, fargs, sent, resp, rq, cls, db_vars, qs>>

\* the task is done with the result and may call again
Forget(t) ==
    /\ fpc[t] = "returned"
    /\ fpc' = [fpc EXCEPT ![t] = "idle"]
    /\ fargs' = [fargs EXCEPT ![t] = NoArgs]
    /\ fres' = [fres EXCEPT ![t] = NoResult]
    /\ sent' = [sent EXCEPT ![t] = 0]
    /\ resp' = [resp EXCEPT ![t] = NoResponse]
    /\ UNCHANGED <<client_vars, rq, cls, db_vars, qs>>

(***************************************************************************)
(* Queries served at the same time, each with the client get_client makes  *)
(* for it.                                                                 *)
(***************************************************************************)
Queries == 1..NumQueries

\* APIClient(api_key=creds.api_key): max_concurrent_requests is left at its default
new_client ==
    [capacity |-> DefaultMaxConcurrentRequests, sem_value |-> DefaultMaxConcurrentRequests]

QueryIdle == [pc |-> "idle", capacity |-> 0, sem_value |-> 0]

QsIdle == [q \in Queries |-> QueryIdle]

\* a request arrives: get_client opens a client of its own, the handler passes
\* the 90-day check and fetch takes a slot of that client's gate and sends
QueryStart(q) ==
    /\ qs[q].pc = "idle"
    /\ new_client.sem_value > 0
    /\ qs' = [qs EXCEPT ![q] = [pc |-> "inflight", capacity |-> new_client.capacity,
                                sem_value |-> new_client.sem_value - 1]]
    /\ UNCHANGED <<client_vars, fetch_vars, rq, db_vars, cls>>

\* the upstream answers: the slot is given back and the handler responds
QueryAnswer(q) ==
    /\ qs[q].pc = "inflight"
    /\ qs' = [qs EXCEPT ![q].pc = "answered", ![q].sem_value = @ + 1]
    /\ UNCHANGED <<client_vars, fetch_vars, rq, db_vars, cls>>

\* the request is over: get_client closes the client
QueryEnd(q) ==
    /\ qs[q].pc = "answered"
    /\ qs' = [qs EXCEPT ![q] = QueryIdle]
    /\ UNCHANGED <<client_vars, fetch_vars, rq, db_vars, cls>>

(***************************************************************************)
(* The background task: save_orders_to_db and create_order_from_item.      *)
(***************************************************************************)
\* what a name of create_order_from_item can be bound to: None, an ORM row
\* with its natural key, or a coroutine object that nobody awaited
NoObject == [kind |-> "None", key |-> <<>>]

Row(key) == [kind |-> "row", key |-> <<key>>]

Coroutine == [kind |-> "coroutine", key |-> <<>>]

\* the tables of models/orders.py, each a sequence of rows
EmptyTables == [products |-> <<>>, warehouses |-> <<>>, regions |-> <<>>, orders |-> <<>>]

\* the rows with a unique natural key: Product.nm_id, Warehouse.name and the
\* composite index of Region
UniqueTables == {"products", "warehouses", "regions"}

\* the request's session: the rows added to it and not yet committed
NewSession == [new |-> EmptyTables]

HfIdle ==
    [pc |-> "idle", orders |-> <<>>, session |-> NewSession,
     error |-> NoException, raised |-> NoException, log |-> <<>>]

DbInit ==
    /\ hf = HfIdle
    /\ store = EmptyTables

\* product.id on an object that has no such attribute
AttributeError == Exception("AttributeError", 0, "'coroutine' object has no attribute 'id'", NoMsg)

\* a row that breaks a unique constraint
IntegrityError == Exception("IntegrityError", 0, "", NoMsg)

\* session.scalar(select(...).where(...)) written without await: the session
\* is asynchronous (its commit, rollback and close are awaited), so the call
\* only builds a coroutine object and the query is never run
scalar(session, committed, table, key) == Coroutine

\* `if not obj`: None is false, a row and a coroutine object are true
truthy(obj) == obj.kind # "None"

\* obj.id can be read
has_id(obj) == obj.kind = "row"

\* session.add(obj)
session_add(session, table, key) ==
    [session EXCEPT !.new[table] = Append(@, key)]

\* the three look-ups of create_order_from_item: select by natural key, and
\* create the row when nothing was found
get_or_create(session, committed, table, key) ==
    LET found == scalar(session, committed, table, key)
    IN  IF ~truthy(found)
        THEN [session |-> session_add(session, table, key), obj |-> Row(key)]
        ELSE [session |-> session, obj |-> found]

region_key(order_item) ==
    <<order_item.country_name, order_item.oblast_okrug_name, order_item.region_name>>

\* create_order_from_item: the session after it, and the Order it returns or
\* the exception it raises
create_order_from_item(order_item, session, committed) ==
    LET product   == get_or_create(session, committed, "products", order_item.nm_id)
        warehouse == get_or_create(product.session, committed, "warehouses",
                                   order_item.warehouse_name)
        region    == get_or_create(warehouse.session, committed, "regions",
                                   region_key(order_item))
    IN  IF has_id(product.obj) /\ has_id(warehouse.obj) /\ has_id(region.obj)
        THEN [session |-> region.session, exc |-> NoException,
              order |-> <<[product |-> product.obj.key, warehouse |-> warehouse.obj.key,
                           region |-> region.obj.key,
                           last_change_date |-> order_item.last_change_date]>>]
        ELSE [session |-> region.session, exc |-> AttributeError, order |-> <<>>]

RECURSIVE add_orders(_, _, _)
\* the for loop of save_orders_to_db; it has no await, so it runs in one step
add_orders(orders, session, committed) ==
    IF orders = <<>> THEN [session |-> session, exc |-> NoException]
    ELSE LET made == create_order_from_item(Head(orders), session, committed)
         IN  IF made.exc # NoException
             THEN [session |-> made.session, exc |-> made.exc]
             ELSE add_orders(Tail(orders),
                             session_add(made.session, "orders", made.order[1]),
                             committed)

NoDuplicates(rows) ==
    \A i, j \in 1..Len(rows) : i # j => rows[i] # rows[j]

\* await db_session.commit(): the new rows reach the tables unless one of
\* them breaks a unique constraint
session_commit(session, committed) ==
    IF \A table \in UniqueTables : NoDuplicates(committed[table] \o session.new[table])
    THEN [store |-> [table \in DOMAIN committed |-> committed[table] \o session.new[table]],
          exc |-> NoException]
    ELSE [store |-> committed, exc |-> IntegrityError]

\* a variant without the except clause
caught_nothing(exc) == FALSE

\* except Exception: everything but a cancellation is caught
caught(exc) == exc.type # "CancelledError"

\* where save_orders_to_db goes when exc is raised inside its try block
after_raise(h, exc) ==
    IF caught(exc)
    THEN [h EXCEPT !.pc = "except", !.error = exc]
    ELSE [h EXCEPT !.pc = "finally", !.error = exc, !.raised = exc]

\* the response has been sent: the background task starts and runs up to
\* its first await
HandoffStart ==
    /\ rq.pc = "responded"
    /\ rq.background_tasks # <<>>
    /\ hf.pc = "idle"
    /\ LET orders == Head(rq.background_tasks)
           added  == add_orders(orders, NewSession, store)
           h      == [hf EXCEPT !.orders = orders, !.session = added.session]
       IN  hf' = IF added.exc = NoException
                 THEN [h EXCEPT !.pc = "commit"]
                 ELSE after_raise(h, added.exc)
    /\ UNCHANGED <<client_vars, fetch_vars, rq, store, cls, qs>>

\* the task resumes after an await: the commit and its print, or the rollback
\* and its print, or the close of the finally clause
HandoffResume ==
    /\ hf.pc \in {"commit", "except", "finally"}
    /\ IF hf.pc = "commit"
       THEN LET done == session_commit(hf.session, store)
            IN  /\ store' = done.store
                /\ hf' = IF done.exc = NoException
                         THEN [hf EXCEPT !.pc = "finally", !.session = NewSession,
                                         !.log = Append(@, "Successfully saved")]
                         ELSE after_raise(hf, done.exc)
       ELSE IF hf.pc = "except"
       THEN /\ hf' = [hf EXCEPT !.pc = "finally", !.session = NewSession,
                                !.log = Append(@, "Error saving orders to database")]
            /\ store' = store
       ELSE /\ hf' = [hf EXCEPT !.pc = "done"]
            /\ store' = store
    /\ UNCHANGED <<client_vars, fetch_vars, rq, cls, qs>>

(***************************************************************************)
(* The aggregator on its own: every bounded argument list, then the call.  *)
(***************************************************************************)
ClsArgs ==
    { [orders |-> o, threshold_a |-> th[1], threshold_b |-> th[2],
       exclude_cancelled |-> x, pc |-> "call", result |-> <<>>] :
        o \in SeqsUpTo(ClassifyItems, MaxOrders), th \in Thresholds, x \in BOOLEAN }

ClsIdle ==
    [orders |-> <<>>, threshold_a |-> DefaultThresholdA, threshold_b |-> DefaultThresholdB,
     exclude_cancelled |-> TRUE, pc |-> "idle", result |-> <<>>]

RqIdle ==
    [pc |-> "idle", date_from |-> 0, date_to |-> None, orders |-> <<>>,
     abc |-> <<>>, error |-> NoException, outcome |-> "none",
     classify_args |-> <<>>, background_tasks |-> <<>>]

Classify ==
    /\ cls.pc = "call"
    /\ cls' = [cls EXCEPT !.pc = "done",
                          !.result = calculate_abc_analysis(cls.orders, cls.threshold_a,
                                         cls.threshold_b, cls.exclude_cancelled)]
    /\ UNCHANGED <<client_vars, fetch_vars, rq, db_vars, qs>>

InitClassify ==
    /\ cls \in ClsArgs
    /\ ClientsInit(DefaultMaxConcurrentRequests)
    /\ FetchInit
    /\ DbInit
    /\ qs = QsIdle
    /\ rq = RqIdle

NextClassify == Classify

SpecClassify == InitClassify /\ [][NextClassify]_vars

(***************************************************************************)
(* One shared client, several tasks calling fetch on it.                   *)
(***************************************************************************)
\* what the tasks ask for, and what the upstream may answer
FetcherArgs == orders_request(Today, DefaultFlag)

FetcherPayloads ==
    SeqsUpTo({ WireItem(TRUE, DateTime(Today, 0, 0), 1,
                        [supplier_article |-> "skuA", barcode |-> "bc1",
                         subject |-> "s1", brand |-> "br1"], 800, FALSE) }, 1)

StatusCodes == {404, 429}

ErrorTexts == {"too many requests"}

InitFetcher ==
    /\ \E n \in 1..MaxCapacity : ClientsInit(n)
    /\ FetchInit
    /\ DbInit
    /\ qs = QsIdle
    /\ rq = RqIdle
    /\ cls = ClsIdle

NextFetcher ==
    \/ Enter(SharedClient)
    \/ Exit(SharedClient)
    \/ \E t \in Tasks : Fetch(t, SharedClient, FetcherArgs)
    \/ \E t \in Tasks : Admit(t, SharedClient)
    \/ \E t \in Tasks, payload \in FetcherPayloads : RespondOk(t, SharedClient, payload)
    \/ \E t \in Tasks, status \in StatusCodes, text \in ErrorTexts :
          RespondStatus(t, SharedClient, status, text)
    \/ \E t \in Tasks : TransportError(t, SharedClient)
    \/ \E t \in Tasks : BodyNotJson(t, SharedClient)
    \/ \E t \in Tasks : CancelInFlight(t, SharedClient)
    \/ \E t \in Tasks : CancelWaiting(t, SharedClient)
    \/ \E t \in Tasks : Forget(t)

SpecFetcher == InitFetcher /\ [][NextFetcher]_vars

\* the request of task t in flight gets its answer, or the transport gives up on it
Completes(t) ==
    \/ \E payload \in FetcherPayloads : RespondOk(t, SharedClient, payload)
    \/ \E status \in StatusCodes, text \in ErrorTexts :
          RespondStatus(t, SharedClient, status, text)
    \/ TransportError(t, SharedClient)
    \/ BodyNotJson(t, SharedClient)

\* the same tasks under a fair event loop: a call that can be admitted is
\* admitted, and every request in flight completes
SpecFetcherFair ==
    /\ InitFetcher
    /\ [][NextFetcher]_vars
    /\ WF_vars(\E t \in Tasks : Admit(t, SharedClient))
    /\ \A t \in Tasks : WF_vars(Completes(t))

(***************************************************************************)
(* The report handler: POST /orders, one query after another.              *)
(***************************************************************************)
\* the task that serves the query, and the client get_client makes for it
QueryTask == 1

QueryClient == 1

\* a variant of the age check that also rejects start dates more than 90 days ahead
too_old_either_way(days_diff) == days_diff > MaxDaysBack \/ days_diff < -MaxDaysBack

\* a variant of the age check that also rejects the 90th day
too_old_from_90(days_diff) == days_diff >= MaxDaysBack

\* if days_diff > 90
too_old(days_diff) == days_diff > MaxDaysBack

\* the flag of the request: flag=0 with date_to, the default of get_orders without
flag_for(date_to) == IF date_to # None THEN SinceFlag ELSE DefaultFlag

\* a variant that filters by the start date when no end date is given
select_orders_filtered(date_from, date_to, orders_response) ==
    orders_until(orders_response,
                 date_to_end(IF date_to # None THEN date_to[1] ELSE date_from))

\* the two branches on date_range.date_to
select_orders(date_from, date_to, orders_response) ==
    IF date_to # None
    THEN orders_until(orders_response, date_to_end(date_to[1]))
    ELSE orders_response

\* a variant of the emptiness check that lets every collection through
never_empty(orders) == FALSE

\* if not orders
is_empty(orders) == orders = <<>>

\* get_client: async with APIClient(api_key=...) as client, then the handler is
\* called with the date range of the request
ReceiveRequest(date_from, date_to) ==
    /\ rq.pc = "idle"
    /\ rq' = [rq EXCEPT !.pc = "handler", !.date_from = date_from, !.date_to = date_to]
    /\ http' = [http EXCEPT ![QueryClient] = "open"]
    /\ sem_value' = [sem_value EXCEPT ![QueryClient] = capacity[QueryClient]]
    /\ sem_waiters' = [sem_waiters EXCEPT ![QueryClient] = <<>>]
    /\ UNCHANGED <<capacity, fetch_vars, cls, db_vars, qs>>

\* get_orders up to its first await: the 90-day check, then the fetch
HandlerStart ==
    /\ rq.pc = "handler"
    /\ IF too_old(Today - rq.date_from)
       THEN /\ rq' = [rq EXCEPT !.pc = "responded", !.outcome = "error",
                                !.error = RangeTooOldError]
            /\ http' = [http EXCEPT ![QueryClient] = "closed"]
            /\ UNCHANGED <<sem_value, sem_waiters, fetch_vars>>
       ELSE /\ rq' = [rq EXCEPT !.pc = "fetching"]
            /\ fetch_enter(QueryTask, QueryClient,
                           orders_request(rq.date_from, flag_for(rq.date_to)))
            /\ UNCHANGED <<http, resp>>
    /\ UNCHANGED <<capacity, cls, db_vars, qs>>

\* a variant that hands only the orders that are not cancelled to the background task
HandlerResumeLiveOnly ==
    /\ rq.pc = "fetching"
    /\ fpc[QueryTask] = "returned"
    /\ LET r == fres[QueryTask]
           orders_response == model_validate(r.value)
           orders == select_orders(rq.date_from, rq.date_to, orders_response)
       IN  IF r.kind = "raised"
           THEN rq' = [rq EXCEPT !.pc = "responded", !.outcome = "error",
                                 !.error = r.exc]
           ELSE IF ~validates(r.value)
           THEN rq' = [rq EXCEPT !.pc = "responded", !.outcome = "error",
                                 !.error = ValidationError]
           ELSE IF is_empty(orders)
           THEN rq' = [rq EXCEPT !.pc = "responded", !.outcome = "error",
                                 !.orders = orders,
                                 !.error = EmptyResultError]
           ELSE rq' = [rq EXCEPT !.pc = "responded", !.outcome = "report",
                                 !.orders = orders,
                                 !.abc = calculate_abc_analysis(orders,
                                            DefaultThresholdA, DefaultThresholdB, TRUE),
                                 !.classify_args = Append(@, orders),
                                 !.background_tasks =
                                    Append(@, filtered_orders(orders, TRUE))]
    /\ http' = [http EXCEPT ![QueryClient] = "closed"]
    /\ UNCHANGED <<capacity, sem_value, sem_waiters, fetch_vars, cls, db_vars, qs>>

\* get_orders after the fetch has returned: decode, filter, emptiness check,
\* classification, dispatch of the background task; then get_client closes the client
HandlerResume ==
    /\ rq.pc = "fetching"
    /\ fpc[QueryTask] = "returned"
    /\ LET r == fres[QueryTask]
           orders_response == model_validate(r.value)
           orders == select_orders(rq.date_from, rq.date_to, orders_response)
       IN  IF r.kind = "raised"
           THEN rq' = [rq EXCEPT !.pc = "responded", !.outcome = "error",
                                 !.error = r.exc]
           ELSE IF ~validates(r.value)
           THEN rq' = [rq EXCEPT !.pc = "responded", !.outcome = "error",
                                 !.error = ValidationError]
           ELSE IF is_empty(orders)
           THEN rq' = [rq EXCEPT !.pc = "responded", !.outcome = "error",
                                 !.orders = orders,
                                 !.error = EmptyResultError]
           ELSE rq' = [rq EXCEPT !.pc = "responded", !.outcome = "report",
                                 !.orders = orders,
                                 !.abc = calculate_abc_analysis(orders,
                                            DefaultThresholdA, DefaultThresholdB, TRUE),
                                 !.classify_args = Append(@, orders),
                                 !.background_tasks = Append(@, orders)]
    /\ http' = [http EXCEPT ![QueryClient] = "closed"]
    /\ UNCHANGED <<capacity, sem_value, sem_waiters, fetch_vars, cls, db_vars, qs>>

\* the response is out; the next request gets a client of its own
FinishQuery ==
    /\ rq.pc = "responded"
    /\ rq.background_tasks = <<>> \/ hf.pc = "done"
    /\ rq' = RqIdle
    /\ http' = [http EXCEPT ![QueryClient] = "None"]
    /\ fpc' = [fpc EXCEPT ![QueryTask] = "idle"]
    /\ fargs' = [fargs EXCEPT ![QueryTask] = NoArgs]
    /\ fres' = [fres EXCEPT ![QueryTask] = NoResult]
    /\ sent' = [sent EXCEPT ![QueryTask] = 0]
    /\ resp' = [resp EXCEPT ![QueryTask] = NoResponse]
    /\ hf' = HfIdle
    /\ UNCHANGED <<capacity, sem_value, sem_waiters, cls, store, qs>>

\* the requests and the upstream answers the handler is exercised on
DateFroms == {Today - 91, Today - 90, Today, Today + 91}

EndDay == Today - 1

DateTos == {None, Some(EndDay)}

ReportTimes ==
    { DateTime(EndDay, 43200, 0), DateTime(EndDay, 86399, 0),
      DateTime(EndDay, 86399, 500000), DateTime(EndDay + 1, 0, 0) }

ReportDescr ==
    [supplier_article |-> "skuA", barcode |-> "bc1", subject |-> "s1", brand |-> "br1"]

ReportItems ==
    { WireItem(TRUE, lcd, 1, ReportDescr, 800, c) : lcd \in ReportTimes, c \in BOOLEAN }
    \cup { WireItem(FALSE, DateTime(EndDay, 43200, 0), 1, ReportDescr, 800, FALSE) }

ReportPayloads == SeqsUpTo(ReportItems, MaxOrders)

Init ==
    /\ ClientsInit(DefaultMaxConcurrentRequests)
    /\ FetchInit
    /\ DbInit
    /\ qs = QsIdle
    /\ rq = RqIdle
    /\ cls = ClsIdle

Next ==
    \/ \E date_from \in DateFroms, date_to \in DateTos : ReceiveRequest(date_from, date_to)
    \/ HandlerStart
    \/ \E payload \in ReportPayloads : RespondOk(QueryTask, QueryClient, payload)
    \/ \E status \in StatusCodes, text \in ErrorTexts :
          RespondStatus(QueryTask, QueryClient, status, text)
    \/ TransportError(QueryTask, QueryClient)
    \/ BodyNotJson(QueryTask, QueryClient)
    \/ CancelInFlight(QueryTask, QueryClient)
    \/ HandlerResume
    \/ HandoffStart
    \/ HandoffResume
    \/ FinishQuery

Spec == Init /\ [][Next]_vars

\* the same handler when the event loop runs the background task it was given
SpecHandoffFair ==
    /\ Init
    /\ [][Next]_vars
    /\ WF_vars(HandoffStart)
    /\ WF_vars(HandoffResume)

(***************************************************************************)
(* The application serving several queries at the same time.               *)
(***************************************************************************)
NextQueries ==
    \/ \E q \in Queries : QueryStart(q)
    \/ \E q \in Queries : QueryAnswer(q)
    \/ \E q \in Queries : QueryEnd(q)

SpecQueries == Init /\ [][NextQueries]_vars

(***************************************************************************)
(* Properties of the admission gate (under SpecFetcher).                   *)
(***************************************************************************)
\* the tasks whose request is in flight to the upstream API
InFlight == { t \in Tasks : fpc[t] = "inflight" }

\* C1: on one client with gate capacity N the number of requests in flight
\* never exceeds N, and a call that arrives while N are in flight is suspended:
\* it is neither sent nor failed.
C1_InFlightNeverExceedsCapacity ==
    /\ [](Cardinality(InFlight) <= capacity[SharedClient])
    /\ [][\A t \in Tasks :
            ( /\ fpc[t] = "idle"
              /\ fpc'[t] # "idle"
              /\ Cardinality(InFlight) = capacity[SharedClient] )
            => (fpc'[t] = "waiting" /\ sent'[t] = 0 /\ fres'[t] = NoResult)]_vars

\* C1 witness: the gate is full and a further call is suspended at it.
C1_Witness ==
    /\ Cardinality(InFlight) = capacity[SharedClient]
    /\ \E t \in Tasks : fpc[t] = "waiting" /\ sem_waiters[SharedClient] = <<t>>

\* C2: every slot taken is given back on every exit path: the free slots are
\* the capacity less the requests in flight, so that with no fetch in flight
\* the free slots equal the capacity.
C2_SlotsAlwaysReleased ==
    /\ sem_value[SharedClient] + Cardinality(InFlight) = capacity[SharedClient]
    /\ (InFlight = {} => sem_value[SharedClient] = capacity[SharedClient])

\* C2 witness: calls have left by a classified error, by another exception and
\* by cancellation, none is in flight, and every slot is free.
C2_Witness ==
    /\ InFlight = {}
    /\ sem_value[SharedClient] = capacity[SharedClient]
    /\ \E t \in Tasks : fres[t].exc.type = "FetchError" /\ sent[t] = 1
    /\ \E t \in Tasks : fres[t].exc.type = "ValueError" /\ sent[t] = 1
    /\ \E t \in Tasks : fres[t].exc.type = "CancelledError" /\ sent[t] = 1

(***************************************************************************)
(* Properties of the report handler (under Spec).                          *)
(***************************************************************************)
\* today minus the start date of the query, in days
Age == Today - rq.date_from

\* the handler is past its 90-day check
Checked == rq.pc \in {"fetching", "responded"}

\* the fetch of the query returned a body that decoded into order records
Decoded ==
    /\ rq.pc = "responded"
    /\ fres[QueryTask].kind = "ok"
    /\ \A i \in 1..Len(fres[QueryTask].value) : fres[QueryTask].value[i].wellformed

\* the flag of the request the query sent
SentFlag == fargs[QueryTask].params[2][2]

\* C3: a start date more than 90 days before today fails with RangeTooOld
\* without any network request; a start date 90 days back or more recent is
\* not rejected by this check.
C3_RangeTooOld ==
    /\ (Checked /\ Age > 90) =>
          /\ rq.pc = "responded"
          /\ rq.outcome = "error"
          /\ rq.error = RangeTooOldError
          /\ sent[QueryTask] = 0
          /\ fpc[QueryTask] = "idle"
    /\ (Checked /\ Age <= 90) => rq.error # RangeTooOldError

\* C3 witness: a query that starts 91 days back has been rejected.
C3_Witness ==
    rq.pc = "responded" /\ Age = 91 /\ rq.error = RangeTooOldError

\* C4: a query that passes the 90-day check sends exactly one network request
\* whatever the outcome, never a second one, and a FetchError raised by fetch
\* reaches the caller as that same error.
C4_OneRequestNoRetry ==
    /\ sent[QueryTask] <= 1
    /\ (Checked /\ Age <= 90) => sent[QueryTask] = 1
    /\ ( /\ rq.pc = "responded"
         /\ fres[QueryTask].kind = "raised"
         /\ fres[QueryTask].exc.type = "FetchError" )
       => (rq.outcome = "error" /\ rq.error = fres[QueryTask].exc)

\* C4 witness: the one request of a query was answered with a non-2xx status
\* and the query failed with that FetchError.
C4_Witness ==
    /\ rq.pc = "responded"
    /\ sent[QueryTask] = 1
    /\ rq.error.type = "FetchError"
    /\ rq.error.msg.form = "Request failed"

RECURSIVE OnOrBeforeDay(_, _)
\* the records last modified on the given calendar day or earlier, in order
OnOrBeforeDay(orders, day) ==
    IF orders = <<>> THEN <<>>
    ELSE IF Head(orders).last_change_date.day <= day
         THEN <<Head(orders)>> \o OnOrBeforeDay(Tail(orders), day)
         ELSE OnOrBeforeDay(Tail(orders), day)

\* C5 as stated: with an end date the fetch uses flag 0, and the collection is
\* exactly the fetched records last modified at any instant of the end day or
\* before it, in the order the API returned them.
C5_EndDayInclusive ==
    (Decoded /\ rq.date_to # None) =>
        /\ SentFlag = 0
        /\ rq.orders = OnOrBeforeDay(model_validate(fres[QueryTask].value), rq.date_to[1])

\* C6: without an end date the fetch uses flag 1, and the collection, and what
\* the aggregator is given, is the fetched sequence: the same records in the
\* same order.
C6_NoEndDateVerbatim ==
    (Decoded /\ rq.date_to = None) =>
        /\ SentFlag = 1
        /\ Len(rq.orders) = Len(fres[QueryTask].value)
        /\ \A i \in 1..Len(rq.orders) :
              /\ rq.orders[i].last_change_date = fres[QueryTask].value[i].lastChangeDate
              /\ rq.orders[i].is_cancel = fres[QueryTask].value[i].isCancel
              /\ rq.orders[i].nm_id = fres[QueryTask].value[i].nmId
              /\ rq.orders[i].price_with_disc = fres[QueryTask].value[i].priceWithDisc
        /\ (rq.outcome = "report" => rq.classify_args = <<rq.orders>>)

\* C6 witness: a query without end date returned a report on two fetched
\* records, one of them last modified after the start day.
C6_Witness ==
    /\ Decoded
    /\ rq.date_to = None
    /\ rq.outcome = "report"
    /\ Len(rq.orders) = 2
    /\ \E i \in 1..2 : rq.orders[i].last_change_date.day > rq.date_from

\* C7: when the collection is empty after the fetch and the end-date filter,
\* the query fails with EmptyResult: no report is returned and the aggregator
\* is not run.
C7_EmptyResult ==
    (Decoded /\ rq.orders = <<>>) =>
        /\ rq.outcome = "error"
        /\ rq.error = EmptyResultError
        /\ rq.abc = <<>>
        /\ rq.classify_args = <<>>

\* C7 witness: the end-date filter dropped every fetched record and the query
\* failed with EmptyResult.
C7_Witness ==
    /\ Decoded
    /\ rq.date_to # None
    /\ Len(fres[QueryTask].value) > 0
    /\ rq.orders = <<>>
    /\ rq.error = EmptyResultError

(***************************************************************************)
(* Properties of calculate_abc_analysis (under SpecClassify).              *)
(***************************************************************************)
RECURSIVE RevenueUpTo(_, _)
\* the revenue of the first i rows of a report
RevenueUpTo(rows, i) ==
    IF i = 0 THEN 0 ELSE rows[i].revenue + RevenueUpTo(rows, i - 1)

\* C8 as amended: the tier of every emitted row is decided by the cumulative
\* share as accumulated, before it is rounded for output: A iff that share is
\* <= threshold_a, B iff it is > threshold_a and <= threshold_b, C otherwise.
C8_TierByAccumulatedShare ==
    cls.pc = "done" =>
        \A i \in 1..Len(cls.result) :
            LET cum   == RevenueUpTo(cls.result, i)
                total == RevenueUpTo(cls.result, Len(cls.result))
                inA   == 10000 * cum <= cls.threshold_a * total
                inB   == 10000 * cum <= cls.threshold_b * total
                tier  == cls.result[i].category
            IN  /\ (tier = "A") <=> inA
                /\ (tier = "B") <=> (~inA /\ inB)
                /\ (tier = "C") <=> (~inA /\ ~inB)

\* C8 witness: a report with a row whose emitted cumulative share is at most
\* threshold_a although the accumulated one is above it, so the row is tier B.
C8_Witness ==
    /\ cls.pc = "done"
    /\ Len(cls.result) = 2
    /\ cls.result[1].cumulative_share <= cls.threshold_a
    /\ cls.result[1].category = "B"

\* C8 as stated: the tier of every emitted row is A iff its emitted
\* cumulative_share <= threshold_a, B iff threshold_a < cumulative_share <=
\* threshold_b, and C otherwise.
C8_TierByEmittedShare ==
    cls.pc = "done" =>
        \A i \in 1..Len(cls.result) :
            LET shown == cls.result[i].cumulative_share
                tier  == cls.result[i].category
            IN  /\ (tier = "A") <=> (shown <= cls.threshold_a)
                /\ (tier = "B") <=> (cls.threshold_a < shown /\ shown <= cls.threshold_b)
                /\ (tier = "C") <=> (cls.threshold_a < shown /\ cls.threshold_b < shown)

\* C9 as stated: when the report has a single product, which then carries 100%
\* of the revenue, that product is tier A whatever the thresholds.
C9_SingleProductIsTierA ==
    (cls.pc = "done" /\ Len(cls.result) = 1) => cls.result[1].category = "A"

RECURSIVE SurvivingRevenue(_, _, _)
\* the revenue of product nm among the records that survive the cancellation filter
SurvivingRevenue(orders, exclude_cancelled, nm) ==
    IF orders = <<>> THEN 0
    ELSE (IF Head(orders).nm_id = nm /\ ~(exclude_cancelled /\ Head(orders).is_cancel)
          THEN Head(orders).price_with_disc ELSE 0)
         + SurvivingRevenue(Tail(orders), exclude_cancelled, nm)

SurvivingProducts(orders, exclude_cancelled) ==
    { orders[i].nm_id : i \in { j \in 1..Len(orders) :
                                 ~(exclude_cancelled /\ orders[j].is_cancel) } }

\* the example's input: exactly two products survive, x totals 800, y totals 200,
\* and the thresholds are 80 and 95
C10_Input(x, y) ==
    /\ x # y
    /\ SurvivingProducts(cls.orders, cls.exclude_cancelled) = {x, y}
    /\ SurvivingRevenue(cls.orders, cls.exclude_cancelled, x) = 800
    /\ SurvivingRevenue(cls.orders, cls.exclude_cancelled, y) = 200
    /\ cls.threshold_a = 8000
    /\ cls.threshold_b = 9500

C10_Rows(x, y, tierY) ==
    /\ Len(cls.result) = 2
    /\ cls.result[1].nm_id = x
    /\ cls.result[1].revenue_share = 8000
    /\ cls.result[1].cumulative_share = 8000
    /\ cls.result[1].category = "A"
    /\ cls.result[2].nm_id = y
    /\ cls.result[2].revenue_share = 2000
    /\ cls.result[2].cumulative_share = 10000
    /\ cls.result[2].category = tierY

\* C10 as amended: X totalling 800 and Y totalling 200 with thresholds 80 and 95
\* give exactly the rows X (80.00, 80.00, A) and Y (20.00, 100.00, C), in that order.
C10_ExampleYieldsTierC ==
    \A x, y \in NmIds :
        (cls.pc = "done" /\ C10_Input(x, y)) => C10_Rows(x, y, "C")

\* C10 witness: the example's input has been classified.
C10_Witness ==
    cls.pc = "done" /\ \E x, y \in NmIds : C10_Input(x, y)

\* C10 as stated: the same input gives the rows X (80.00, 80.00, A) and
\* Y (20.00, 100.00, B).
C10_ExampleYieldsTierB ==
    \A x, y \in NmIds :
        (cls.pc = "done" /\ C10_Input(x, y)) => C10_Rows(x, y, "B")

(***************************************************************************)
(* C11 - C14: order of the rows, cumulative shares, descriptive fields,    *)
(* empty results.                                                          *)
(***************************************************************************)
\* C11: the emitted rows are in revenue-descending order: of any two
\* adjacent rows the earlier one has revenue greater than or equal to the
\* later one.
C11_RevenueDescending ==
    cls.pc = "done" =>
        \A i \in 1..(Len(cls.result) - 1) :
            cls.result[i].revenue >= cls.result[i + 1].revenue

\* two products given in ascending order of revenue come out swapped
C11_Witness ==
    /\ cls.pc = "done"
    /\ Len(cls.orders) = 2
    /\ Len(cls.result) = 2
    /\ cls.result[1].nm_id = cls.orders[2].nm_id
    /\ cls.result[2].nm_id = cls.orders[1].nm_id
    /\ cls.result[1].revenue > cls.result[2].revenue

FirstSurviving(orders, exclude_cancelled, nm) ==
    LET idx == { j \in 1..Len(orders) :
                   /\ orders[j].nm_id = nm
                   /\ ~(exclude_cancelled /\ orders[j].is_cancel) }
    IN  orders[CHOOSE j \in idx : \A k \in idx : j <= k]

\* C13: for every product id the emitted supplier_article, barcode, subject
\* and brand are those of the first surviving record carrying that id; a
\* later record never overwrites them, even when its values differ.
C13_FirstRecordWins ==
    cls.pc = "done" =>
        \A i \in 1..Len(cls.result) :
            LET first == FirstSurviving(cls.orders, cls.exclude_cancelled,
                                        cls.result[i].nm_id)
            IN  /\ cls.result[i].supplier_article = first.supplier_article
                /\ cls.result[i].barcode = first.barcode
                /\ cls.result[i].subject = first.subject
                /\ cls.result[i].brand = first.brand

RECURSIVE SurvivingTotal(_, _)
\* the revenue of all the records that survive the cancellation filter
SurvivingTotal(orders, exclude_cancelled) ==
    IF orders = <<>> THEN 0
    ELSE (IF ~(exclude_cancelled /\ Head(orders).is_cancel)
          THEN Head(orders).price_with_disc ELSE 0)
         + SurvivingTotal(Tail(orders), exclude_cancelled)

\* C14: the result is empty exactly when no record survives the cancellation
\* filter or the total revenue of the survivors is zero; in every other case
\* it has at least one row.  (The call always completes: the share is never
\* computed with a zero total.)
C14_EmptyExactlyWhenNothingToRank ==
    cls.pc = "done" =>
        ( cls.result = <<>>
          <=> \/ SurvivingProducts(cls.orders, cls.exclude_cancelled) = {}
              \/ SurvivingTotal(cls.orders, cls.exclude_cancelled) = 0 )

\* records survive, all of them with revenue zero, and nothing is emitted
C14_Witness ==
    /\ cls.pc = "done"
    /\ SurvivingProducts(cls.orders, cls.exclude_cancelled) # {}
    /\ SurvivingTotal(cls.orders, cls.exclude_cancelled) = 0
    /\ cls.result = <<>>

(***************************************************************************)
(* C15: start dates far from today, in the past and in the future.         *)
(***************************************************************************)
\* C15 as amended: a start date more than 90 days in the past fails with
\* RangeTooOld and no request is sent; a start date more than 90 days in the
\* future has a negative age, passes the check, and the one request of the
\* query is sent: the query does not fail with RangeTooOld.
C15_OnlyPastIsTooOld ==
    /\ (Checked /\ Age > 90) =>
          /\ rq.pc = "responded"
          /\ rq.error = RangeTooOldError
          /\ sent[QueryTask] = 0
    /\ (Checked /\ Age < -90) =>
          /\ rq.error # RangeTooOldError
          /\ sent[QueryTask] = 1

\* a query starting 91 days ahead was sent upstream and ended on the empty answer
C15_Witness ==
    /\ rq.pc = "responded"
    /\ Age = -91
    /\ sent[QueryTask] = 1
    /\ rq.error = EmptyResultError

\* C15 as stated: a start date more than 90 days from today, in the past or in
\* the future, fails with RangeTooOld and no request is sent.
C15_FarDatesRejectedEitherWay ==
    (Checked /\ (Age > 90 \/ Age < -90)) =>
        /\ rq.pc = "responded"
        /\ rq.error = RangeTooOldError
        /\ sent[QueryTask] = 0

(***************************************************************************)
(* C16 - C18: how the failures of a query and of a fetch are reported.     *)
(***************************************************************************)
\* what went wrong in the query that has been answered, read off the request
\* and the upstream's answer
Cause ==
    LET answer == resp[QueryTask]
    IN  IF rq.pc # "responded" THEN "pending"
        ELSE IF Age > MaxDaysBack THEN "RangeTooOld"
        ELSE IF answer.kind = "status" THEN "RequestFailed"
        ELSE IF answer.kind = "transport" THEN "TransportFailed"
        ELSE IF answer.kind = "2xx"
                /\ \E i \in 1..Len(answer.json) : ~answer.json[i].wellformed
             THEN "DecodeFailed"
        ELSE IF answer.kind = "2xx" /\ rq.orders = <<>> THEN "EmptyResult"
        ELSE "other"

\* what a caller sees of an error without reading its text
Signature(e) == <<e.type, e.status_code>>

\* C16 as amended: every error kind reaches the caller as a condition of its
\* own, but not always by type or status: DecodeFailed is a validation error
\* and NotInitialized a RuntimeError, types no other kind uses, while
\* RequestFailed and TransportFailed are both FetchError and differ only in
\* the message, and RangeTooOld and EmptyResult are both HTTPException with
\* status 400 and differ only in the detail.
C16_KindsToldApartByText ==
    rq.pc = "responded" =>
        /\ Cause = "RangeTooOld" <=> rq.error = RangeTooOldError
        /\ Cause = "EmptyResult" <=> rq.error = EmptyResultError
        /\ Cause = "RequestFailed"
              <=> (rq.error.type = "FetchError" /\ rq.error.msg.form = "Request failed")
        /\ Cause = "TransportFailed"
              <=> (rq.error.type = "FetchError" /\ rq.error.msg.form = "HTTP client error")
        /\ Cause = "DecodeFailed" <=> rq.error = ValidationError
        /\ rq.error.type # NotInitializedError.type
        /\ Signature(RangeTooOldError) = Signature(EmptyResultError)
        /\ Signature(RequestFailedError(fargs[QueryTask], 429, "too many requests"))
              = Signature(TransportFailedError(fargs[QueryTask]))

\* an empty result, reported with the type and status of RangeTooOld and a
\* detail of its own
C16_Witness ==
    /\ rq.pc = "responded"
    /\ Cause = "EmptyResult"
    /\ Signature(rq.error) = Signature(RangeTooOldError)
    /\ rq.error.detail # RangeTooOldError.detail

\* C16 as stated: no two kinds are reported through the same type and status:
\* the type and status of the error tell which kind occurred.
C16_KindsToldApartByTypeOrStatus ==
    rq.pc = "responded" =>
        /\ Signature(rq.error) = Signature(RangeTooOldError) => Cause = "RangeTooOld"
        /\ Signature(rq.error) = Signature(EmptyResultError) => Cause = "EmptyResult"
        /\ Signature(rq.error) = Signature(TransportFailedError(fargs[QueryTask]))
              => Cause = "TransportFailed"
        /\ Signature(rq.error)
              = Signature(RequestFailedError(fargs[QueryTask], 429, "too many requests"))
              => Cause = "RequestFailed"
        /\ Signature(rq.error) = Signature(ValidationError) => Cause = "DecodeFailed"

\* C17: a fetch answered with a non-2xx status fails with RequestFailed, which
\* carries the URL, the parameters and the body of the request, the status
\* code and the raw body of the answer; no decoded value is returned.
C17_RequestFailedCarriesDiagnosis ==
    \A t \in Tasks :
        resp[t].kind = "status" =>
            /\ fpc[t] = "returned"
            /\ fres[t].kind = "raised"
            /\ fres[t].value = <<>>
            /\ fres[t].exc.type = "FetchError"
            /\ fres[t].exc.msg.form = "Request failed"
            /\ fres[t].exc.msg.url = fargs[t].url
            /\ fres[t].exc.msg.params = fargs[t].params
            /\ fres[t].exc.msg.body = fargs[t].body
            /\ fres[t].exc.msg.status = resp[t].status
            /\ fres[t].exc.msg.response = resp[t].text

C17_Witness ==
    \E t \in Tasks :
        /\ resp[t] = ResponseStatus(429, "too many requests")
        /\ fres[t].exc.msg.status = 429
        /\ fres[t].exc.msg.url # ""

\* C18: a fetch called on a client that is not open (never opened, or closed)
\* fails at once with NotInitialized, and no network request is sent.
C18_OutsideBracketNotInitialized ==
    [][\A t \in Tasks :
          ( /\ fpc[t] = "idle"
            /\ fpc'[t] # "idle"
            /\ http[SharedClient] # "open" )
          => /\ fpc'[t] = "returned"
             /\ fres'[t] = Raised(NotInitializedError)
             /\ sent'[t] = 0]_vars

(***************************************************************************)
(* C19, C20: the background task that stores the orders of a report.       *)
(***************************************************************************)
\* C19: an exception raised inside save_orders_to_db is caught and logged and
\* does not leave the task; every step of the task is taken after the report
\* has been handed to the caller, and no step changes the answer the caller got.
C19_HandoffFailureStaysInBackground ==
    /\ [](hf.error # NoException =>
            /\ hf.raised = NoException
            /\ hf.pc \in {"finally", "done"} =>
                  \E i \in 1..Len(hf.log) : hf.log[i] = "Error saving orders to database")
    /\ [][(hf' # hf /\ hf'.pc # "idle") =>
            /\ rq.pc = "responded"
            /\ rq.outcome = "report"
            /\ rq.error = NoException
            /\ rq' = rq]_vars

\* a report was returned, and afterwards its background task failed, logged
\* the failure and ended
C19_Witness ==
    /\ rq.pc = "responded"
    /\ rq.outcome = "report"
    /\ rq.abc # <<>>
    /\ hf.pc = "done"
    /\ hf.error = AttributeError
    /\ hf.log = <<"Error saving orders to database">>

\* the values of a sequence
Range(rows) == { rows[i] : i \in 1..Len(rows) }

\* C20: the database holds at most one product per nm_id, one warehouse per
\* name and one region per (country, oblast, region); a reference is created
\* on the first sight of its key, so that once a background task has ended
\* the key of every order it was given has its row.
C20_ReferencesCreatedOnceAndReused ==
    /\ \A table \in UniqueTables : NoDuplicates(store[table])
    /\ hf.pc = "done" =>
          \A i \in 1..Len(hf.orders) :
              /\ hf.orders[i].nm_id \in Range(store.products)
              /\ hf.orders[i].warehouse_name \in Range(store.warehouses)
              /\ region_key(hf.orders[i]) \in Range(store.regions)

(***************************************************************************)
(* C21: the ceiling across the queries served at the same time.            *)
(***************************************************************************)
\* the queries whose upstream request is in flight
QueriesInFlight == { q \in Queries : qs[q].pc = "inflight" }

\* C21: whatever the number of queries served at the same time, the requests
\* in flight to the upstream API never exceed the gate capacity (10).
C21_CeilingAcrossQueries ==
    Cardinality(QueriesInFlight) <= DefaultMaxConcurrentRequests

(***************************************************************************)
(* C22: no call waits at the gate for ever (under SpecFetcherFair).        *)
(***************************************************************************)
\* C22: a call that found the gate full is suspended and not failed, and it
\* does not wait for ever: it leaves the gate, and it leaves it only by being
\* admitted (its request is sent, or refused because the client was closed
\* meanwhile) or by the cancellation of its task.
C22_WaitingCallIsAdmitted ==
    /\ \A t \in Tasks : (fpc[t] = "waiting") ~> (fpc[t] # "waiting")
    /\ [](\A t \in Tasks : fpc[t] = "waiting" => (fres[t] = NoResult /\ sent[t] = 0))
    /\ [][\A t \in Tasks :
            (fpc[t] = "waiting" /\ fpc'[t] # "waiting") =>
                \/ fpc'[t] = "inflight" /\ sent'[t] = 1
                \/ fres'[t] = Raised(ClientClosedError)
                \/ fres'[t] = Raised(CancelledError)]_vars

\* a gate of one slot: one call has completed, the next is in flight, and a
\* third is suspended behind it
C22_Witness ==
    /\ capacity[SharedClient] = 1
    /\ \E t, u, v \in Tasks :
          /\ fres[t].kind = "ok" /\ sent[t] = 1
          /\ fpc[u] = "inflight"
          /\ sem_waiters[SharedClient] = <<v>> /\ fpc[v] = "waiting"

(***************************************************************************)
(* C23: one row per product, with its count and its revenue.               *)
(***************************************************************************)
\* the positions of the records of product nm that survive the cancellation filter
SurvivingOf(orders, exclude_cancelled, nm) ==
    { j \in 1..Len(orders) :
        orders[j].nm_id = nm /\ ~(exclude_cancelled /\ orders[j].is_cancel) }

RECURSIVE CountsUpTo(_, _)
CountsUpTo(rows, i) ==
    IF i = 0 THEN 0 ELSE rows[i].orders_count + CountsUpTo(rows, i - 1)

\* C23: when the total revenue is not zero there is exactly one row for every
\* product id among the surviving records and no other row; a row's
\* orders_count is the number of surviving records of its product and its
\* revenue the sum of their price_with_disc, so that the counts of all rows
\* add up to the number of surviving records.
C23_OneRowPerProduct ==
    ( /\ cls.pc = "done"
      /\ SurvivingTotal(cls.orders, cls.exclude_cancelled) # 0 ) =>
        /\ { cls.result[i].nm_id : i \in 1..Len(cls.result) }
              = SurvivingProducts(cls.orders, cls.exclude_cancelled)
        /\ \A i, j \in 1..Len(cls.result) :
              i # j => cls.result[i].nm_id # cls.result[j].nm_id
        /\ \A i \in 1..Len(cls.result) :
              /\ cls.result[i].orders_count
                    = Cardinality(SurvivingOf(cls.orders, cls.exclude_cancelled,
                                              cls.result[i].nm_id))
              /\ cls.result[i].revenue
                    = SurvivingRevenue(cls.orders, cls.exclude_cancelled,
                                       cls.result[i].nm_id)
        /\ CountsUpTo(cls.result, Len(cls.result))
              = Len(filtered_orders(cls.orders, cls.exclude_cancelled))

\* two surviving records of one product make one row that counts both
C23_Witness ==
    /\ cls.pc = "done"
    /\ Len(cls.orders) = 2
    /\ cls.orders[1].nm_id = cls.orders[2].nm_id
    /\ cls.orders[1].price_with_disc = 800
    /\ cls.orders[2].price_with_disc = 200
    /\ Len(cls.result) = 1
    /\ cls.result[1].orders_count = 2
    /\ cls.result[1].revenue = 1000

(***************************************************************************)
(* C24: the background task runs to its end (under SpecHandoffFair).       *)
(***************************************************************************)
\* the background task has ended after committing every order it was given
Committed ==
    /\ hf.error = NoException
    /\ hf.log = <<"Successfully saved">>
    /\ Len(store.orders) >= Len(hf.orders)

\* the background task has ended after a failure: rolled back and logged
RolledBackAndLogged ==
    /\ hf.error # NoException
    /\ hf.raised = NoException
    /\ hf.session = NewSession
    /\ hf.log = <<"Error saving orders to database">>

\* C24: a background task that was registered always reaches its end; at its
\* end it has either committed the whole batch or rolled back and logged the
\* failure, and its last step, in both cases, is the close of the session.
C24_HandoffRunsToEnd ==
    /\ (rq.pc = "responded" /\ rq.background_tasks # <<>>) ~> (hf.pc = "done")
    /\ [](hf.pc = "done" => (Committed \/ RolledBackAndLogged))
    /\ [][(hf.pc # "done" /\ hf'.pc = "done") => hf.pc = "finally"]_vars
    /\ [][(hf.pc = "except" /\ hf' # hf) => hf'.pc = "finally"]_vars

\* a task that failed on its first order has rolled back, logged and closed,
\* and the tables are as they were
C24_Witness ==
    /\ hf.pc = "done"
    /\ Len(hf.orders) = 2
    /\ RolledBackAndLogged
    /\ store = EmptyTables

(***************************************************************************)
(* C25: when the background task is registered, and with what.             *)
(***************************************************************************)
\* the orders the handler works on: the decoded answer, cut at the end date
\* when the query has one; cancelled orders are kept
SelectedOrders ==
    select_orders(rq.date_from, rq.date_to, model_validate(resp[QueryTask].json))

\* C25: a query that returns a report has registered the background task
\* exactly once, in the step in which the classification was computed, and
\* with the very list that was classified (the selected orders, cancelled
\* ones included); a query that fails, or has not answered yet, has
\* registered none, and the task only ever runs on that list.
C25_HandoffDispatchedOncePerReport ==
    /\ rq.pc # "responded" => (rq.background_tasks = <<>> /\ hf.pc = "idle")
    /\ (rq.pc = "responded" /\ rq.outcome = "error") =>
          (rq.background_tasks = <<>> /\ hf.pc = "idle")
    /\ (rq.pc = "responded" /\ rq.outcome = "report") =>
          /\ rq.orders = SelectedOrders
          /\ rq.classify_args = <<rq.orders>>
          /\ rq.background_tasks = <<rq.orders>>
          /\ rq.abc = calculate_abc_analysis(rq.orders, DefaultThresholdA,
                                             DefaultThresholdB, TRUE)
    /\ hf.pc # "idle" => hf.orders = rq.orders

\* the answer had a cancelled order inside the window and an order after the
\* end day: the task ran on the cancelled order alone, as classified
C25_Witness ==
    /\ rq.pc = "responded"
    /\ rq.outcome = "report"
    /\ rq.date_to # None
    /\ Len(resp[QueryTask].json) = 2
    /\ Len(rq.orders) = 1
    /\ rq.orders[1].is_cancel
    /\ hf.pc = "done"
    /\ hf.orders = rq.orders

====
